---- MODULE Spec2Model ----
(***************************************************************************)
(* Model of the Monero wallet functions of the storefront:                 *)
(*   - process-monero-withdrawal (supabase/functions/.../index.ts)         *)
(*   - generate-monero-address, wallet-daemon variant (unnamed/part_000)   *)
(*   - generate-monero-address, local variant        (unnamed/part_001)    *)
(* Every request is one invocation of a handler; each `await` of a handler *)
(* is one atomic step, so that requests interleave exactly at the points   *)
(* where the code yields to the store, the price source or the daemon.     *)
(*                                                                         *)
(* Money is kept in integer cents, percentage_fee as pct_num / pct_den,    *)
(* the XMR price in cents per coin and XMR amounts in units of             *)
(* 1/PriceUnit coin, so that fee, net amount and crypto amount are exact.  *)
(***************************************************************************)
EXTENDS Integers, Sequences, FiniteSets, TLC

VARIABLES
    withdrawal_fees,      \* the XMR row of table withdrawal_fees, or NoFees
    wallet_balances,      \* user_id -> balance_xmr, or NoRow
    user_addresses,       \* set of rows of table user_addresses
    withdrawal_requests,  \* sequence of rows; a row's id is its index
    pc,                   \* per invocation: the await it is suspended at
    local,                \* per invocation: the handler's local variables
    response,             \* per invocation: the Response it returned
    started,              \* number of requests received so far
    initial_balance,      \* history: wallet_balances as first set up
    succeeded             \* history: per user, the success responses of withdrawals

vars == <<withdrawal_fees, wallet_balances, user_addresses, withdrawal_requests,
          pc, local, response, started, initial_balance, succeeded>>

stores == <<withdrawal_fees, wallet_balances, user_addresses, withdrawal_requests>>

----------------------------------------------------------------------------
\* Bounds of the model

MaxRequests == 2

Procs == {"r1", "r2"}
Users == {"u1", "u2"}
NoUser == "anonymous"
Currencies == {"XMR", "BTC"}
Amounts == {200, 10000}
Prices == {100, 200}
NoPrice == 0
NoRow == -1
NoFees == [base_fee_eur |-> -1, pct_num |-> 0, pct_den |-> 1]
FeeConfigs == {[base_fee_eur |-> 200, pct_num |-> 1, pct_den |-> 100],
               [base_fee_eur |-> 100, pct_num |-> 50, pct_den |-> 100]}
Balances == {9800}
Nonces == {1, 2}

\* 1 / PriceUnit (per cent of price) is the unit XMR amounts are counted in:
\* every price of Prices divides it, so net / price is an integer.
PriceUnit == CHOOSE m \in Prices : \A q \in Prices : m % q = 0

----------------------------------------------------------------------------
\* Values

NullJson == {}                       \* private_key_encrypted = null
RpcWalletJson == {"walletFilename", "walletPassword", "addressIndex",
                  "spendKey", "viewKey"}
SimulatedJson == {"simulated", "note"}
GeneratedJson == {"privateKey", "viewKey"}

PendingAddress == <<"pending", 0>>
NoAddress == <<"", 0>>

BlankLocal ==
    [handler |-> "", user |-> NoUser, amount_eur |-> 0, currency |-> "",
     totalFeeEur |-> 0, netAmountEur |-> 0, xmrPrice |-> 0, cryptoAmount |-> 0,
     balance |-> NoRow, walletInfo |-> NullJson, withdrawalId |-> 0,
     unlockedBalance |-> 0, rpcError |-> "", txHash |-> "null",
     address |-> NoAddress,
     calls |-> <<>>, writes |-> {}]

NoResponse ==
    [code |-> 0, success |-> FALSE, error |-> "", status |-> "", warning |-> FALSE,
     address |-> NoAddress, fee_eur |-> 0, net_amount_eur |-> 0, tx_hash |-> "null"]

\* A Response built without a status option carries status 200.
ErrorResponseDefaultStatus(msg) == [NoResponse EXCEPT !.code = 200, !.error = msg]

\* new Response(JSON.stringify({ error: error.message }), { status: 500 })

ErrorResponse(msg) == [NoResponse EXCEPT !.code = 500, !.error = msg]

----------------------------------------------------------------------------
\* Store operations

Single(rows) == IF Cardinality(rows) = 1 THEN CHOOSE r \in rows : TRUE
                ELSE [user_id |-> NoUser, currency |-> "", address |-> NoAddress,
                      private_key_encrypted |-> NullJson]

IsNull(row) == row.user_id = NoUser

AddressRows(u) == {r \in user_addresses : r.user_id = u /\ r.currency = "XMR"}

\* upsert: the row with the same (user_id, currency) is replaced.
Upsert(table, row) ==
    {r \in table : ~(r.user_id = row.user_id /\ r.currency = row.currency)}
        \cup {row}

StoreAddressInserting(table, row) == table \cup {row}

\* supabaseClient.from('user_addresses').upsert({...})
StoreAddress(table, row) == Upsert(table, row)

----------------------------------------------------------------------------
\* process-monero-withdrawal: pure parts

PercentageFee(amount_eur, feeData) ==
    (amount_eur * feeData.pct_num) \div feeData.pct_den

TotalFeeNoBase(amount_eur, feeData) == PercentageFee(amount_eur, feeData)

TotalFeeEur(amount_eur, feeData) ==
    feeData.base_fee_eur + PercentageFee(amount_eur, feeData)

NetAmountEur(amount_eur, feeData) == amount_eur - TotalFeeEur(amount_eur, feeData)

AmountTooSmallStrict(netAmountEur) == netAmountEur < 0

AmountTooSmall(netAmountEur) == netAmountEur <= 0

CryptoAmount(netAmountEur, xmrPrice) == (netAmountEur * PriceUnit) \div xmrPrice

\* Only the missing row checked.
InsufficientBalanceOnlyMissing(balance, cryptoAmount) == balance = NoRow

InsufficientBalanceOrEqual(balance, cryptoAmount) ==
    balance = NoRow \/ balance <= cryptoAmount

InsufficientBalance(balance, cryptoAmount) ==
    balance = NoRow \/ balance < cryptoAmount

----------------------------------------------------------------------------
\* Initial state: the fee configuration, the balances and the address rows
\* are whatever was provisioned outside these functions; a user may have no
\* balance row, and may have a placeholder row whose address is "pending".

AddressRow(user, address, json) ==
    [user_id |-> user, currency |-> "XMR", address |-> address,
     private_key_encrypted |-> json]

\* The address row a user can have before a request arrives: none, the
\* placeholder, or the row of an earlier daemon-backed address generation.
EarlierRows(u) ==
    {AddressRow(u, PendingAddress, NullJson),
     AddressRow(u, <<"daemon", 1>>, RpcWalletJson)}

Init ==
    /\ withdrawal_fees \in FeeConfigs \cup {NoFees}
    /\ \E b \in Balances : wallet_balances = [u \in Users |-> IF u = "u1" THEN b ELSE NoRow]
    /\ \/ user_addresses = {}
       \/ \E r \in EarlierRows("u1") : user_addresses = {r}
    /\ withdrawal_requests = <<>>
    /\ pc = [p \in Procs |-> "idle"]
    /\ local = [p \in Procs |-> BlankLocal]
    /\ response = [p \in Procs |-> NoResponse]
    /\ started = 0
    /\ initial_balance = wallet_balances
    /\ succeeded = [u \in Users |-> [n |-> 0, amount_crypto |-> 0]]

----------------------------------------------------------------------------
\* Steps shared by the handlers

Goto(p, label) == pc' = [pc EXCEPT ![p] = label]

Respond(p, r) ==
    /\ response' = [response EXCEPT ![p] = r]
    /\ Goto(p, "done")

Called(p, method) == [local[p] EXCEPT !.calls = Append(@, method)]

\* The handler boundary: serve's outer catch.
Throw(p, msg) == Respond(p, ErrorResponse(msg))

\* The runtime hands the Response to the client and the invocation ends.
Return(p) ==
    /\ pc[p] = "done"
    /\ pc' = [pc EXCEPT ![p] = "idle"]
    /\ local' = [local EXCEPT ![p] = BlankLocal]
    /\ response' = [response EXCEPT ![p] = NoResponse]
    /\ UNCHANGED <<stores, started, initial_balance, succeeded>>

----------------------------------------------------------------------------
\* process-monero-withdrawal: the handler

\* Request received: bearer token resolved, body parsed, currency checked.
WRequest(p) ==
    /\ pc[p] = "idle"
    /\ started < MaxRequests
    /\ started' = started + 1
    /\ \E user \in Users \cup {NoUser}, amount_eur \in Amounts, currency \in Currencies :
          /\ local' = [local EXCEPT ![p] =
                          [BlankLocal EXCEPT !.handler = "withdrawal", !.user = user,
                                             !.amount_eur = amount_eur,
                                             !.currency = currency]]
          /\ IF user = NoUser THEN Throw(p, "Unauthorized")
             ELSE IF currency # "XMR"
                  THEN Throw(p, "This function only handles Monero withdrawals")
                  ELSE Goto(p, "w_fees") /\ UNCHANGED response
    /\ UNCHANGED <<stores, initial_balance, succeeded>>

\* withdrawal_fees read, fee and net amount computed.
WFees(p) ==
    /\ pc[p] = "w_fees"
    /\ LET feeData == withdrawal_fees
           totalFeeEur == TotalFeeEur(local[p].amount_eur, feeData)
           netAmountEur == NetAmountEur(local[p].amount_eur, feeData)
       IN IF feeData = NoFees
          THEN Throw(p, "Withdrawal fees not configured for Monero") /\ UNCHANGED local
          ELSE /\ local' = [local EXCEPT ![p].totalFeeEur = totalFeeEur,
                                         ![p].netAmountEur = netAmountEur]
               /\ IF AmountTooSmall(netAmountEur)
                  THEN Throw(p, "Amount too small after fees")
                  ELSE Goto(p, "w_price") /\ UNCHANGED response
    /\ UNCHANGED <<stores, started, initial_balance, succeeded>>

\* Price fetched from the public price endpoint.
WPrice(p) ==
    /\ pc[p] = "w_price"
    /\ \E xmrPrice \in Prices \cup {NoPrice} :
          IF xmrPrice = NoPrice
          THEN /\ local' = [local EXCEPT ![p] = Called(p, "price")]
               /\ Throw(p, "Could not fetch Monero price")
          ELSE /\ local' = [local EXCEPT ![p] =
                               [Called(p, "price") EXCEPT
                                   !.xmrPrice = xmrPrice,
                                   !.cryptoAmount =
                                       CryptoAmount(local[p].netAmountEur, xmrPrice)]]
               /\ Goto(p, "w_balance") /\ UNCHANGED response
    /\ UNCHANGED <<stores, started, initial_balance, succeeded>>

\* wallet_balances read and checked against the crypto amount.
WBalance(p) ==
    /\ pc[p] = "w_balance"
    /\ LET balance == wallet_balances[local[p].user]
       IN /\ local' = [local EXCEPT ![p].balance = balance]
          /\ IF InsufficientBalance(balance, local[p].cryptoAmount)
             THEN Throw(p, "Insufficient Monero balance")
             ELSE Goto(p, "w_address") /\ UNCHANGED response
    /\ UNCHANGED <<stores, started, initial_balance, succeeded>>

NewRequestRow(p) ==
    [id |-> Len(withdrawal_requests) + 1, user_id |-> local[p].user,
     amount_eur |-> local[p].amount_eur, currency |-> "XMR",
     fee_eur |-> local[p].totalFeeEur, amount_crypto |-> local[p].cryptoAmount,
     status |-> "pending", tx_hash |-> "null", notes |-> "null",
     hash_origin |-> "none"]

\* The insert moved in front of the wallet lookup.
WAddressAfterInsert(p) ==
    /\ pc[p] = "w_address"
    /\ withdrawal_requests' = Append(withdrawal_requests, NewRequestRow(p))
    /\ LET addressData == Single(AddressRows(local[p].user))
       IN IF IsNull(addressData) \/ addressData.private_key_encrypted = NullJson
          THEN Throw(p, "Monero wallet not found for user") /\ UNCHANGED local
          ELSE /\ local' = [local EXCEPT
                               ![p].walletInfo = addressData.private_key_encrypted,
                               ![p].withdrawalId = Len(withdrawal_requests) + 1]
               /\ Goto(p, IF "simulated" \in addressData.private_key_encrypted
                          THEN "w_catch" ELSE "w_open")
               /\ UNCHANGED response
    /\ UNCHANGED <<withdrawal_fees, wallet_balances, user_addresses,
                   started, initial_balance, succeeded>>

\* user_addresses read: the stored wallet metadata.
WAddress(p) ==
    /\ pc[p] = "w_address"
    /\ LET addressData == Single(AddressRows(local[p].user))
       IN IF IsNull(addressData) \/ addressData.private_key_encrypted = NullJson
          THEN Throw(p, "Monero wallet not found for user") /\ UNCHANGED local
          ELSE /\ local' = [local EXCEPT
                               ![p].walletInfo = addressData.private_key_encrypted]
               /\ Goto(p, "w_insert") /\ UNCHANGED response
    /\ UNCHANGED <<stores, started, initial_balance, succeeded>>

\* withdrawal_requests insert; then, with no await in between, the
\* simulated-wallet check that opens the daemon path.
WInsert(p) ==
    /\ pc[p] = "w_insert"
    /\ \/ /\ Throw(p, "insert failed")
          /\ UNCHANGED <<local, withdrawal_requests>>
       \/ /\ withdrawal_requests' = Append(withdrawal_requests, NewRequestRow(p))
          /\ UNCHANGED response
          /\ IF "simulated" \in local[p].walletInfo
             THEN /\ local' = [local EXCEPT
                      ![p].withdrawalId = Len(withdrawal_requests) + 1,
                      ![p].writes = @ \cup {"withdrawal_requests"},
                      ![p].rpcError =
                          "Cannot process real withdrawal with simulated wallet"]
                  /\ Goto(p, "w_catch")
             ELSE /\ local' = [local EXCEPT
                      ![p].withdrawalId = Len(withdrawal_requests) + 1,
                      ![p].writes = @ \cup {"withdrawal_requests"}]
                  /\ Goto(p, "w_open")
    /\ UNCHANGED <<withdrawal_fees, wallet_balances, user_addresses,
                   started, initial_balance, succeeded>>

\* A daemon call that throws lands in the inner catch.
RpcFails(p, method, msg) ==
    /\ local' = [local EXCEPT ![p] = [Called(p, method) EXCEPT !.rpcError = msg]]
    /\ Goto(p, "w_catch")

WOpenWallet(p) ==
    /\ pc[p] = "w_open"
    /\ \/ RpcFails(p, "open_wallet", "RPC error: open_wallet")
       \/ /\ local' = [local EXCEPT ![p] = Called(p, "open_wallet")]
          /\ Goto(p, "w_validate")
    /\ UNCHANGED <<stores, response, started, initial_balance, succeeded>>

\* validateAddress swallows a daemon error and answers false.
WValidateAddress(p) ==
    /\ pc[p] = "w_validate"
    /\ \E isValidAddress \in BOOLEAN :
          IF ~isValidAddress
          THEN RpcFails(p, "validate_address", "Invalid Monero destination address")
          ELSE /\ local' = [local EXCEPT ![p] = Called(p, "validate_address")]
               /\ Goto(p, "w_getBalance")
    /\ UNCHANGED <<stores, response, started, initial_balance, succeeded>>

\* The unlocked-balance check left out.
UnlockedTooLowNever(unlockedBalance, cryptoAmount) == FALSE

\* if (balanceInfo.unlockedBalance < cryptoAmount)

UnlockedTooLow(unlockedBalance, cryptoAmount) == unlockedBalance < cryptoAmount

WGetBalance(p) ==
    /\ pc[p] = "w_getBalance"
    /\ \/ RpcFails(p, "get_balance", "RPC error: get_balance")
       \/ \E unlockedBalance \in {local[p].cryptoAmount - 1, local[p].cryptoAmount} :
             IF UnlockedTooLow(unlockedBalance, local[p].cryptoAmount)
             THEN /\ local' = [local EXCEPT ![p] =
                      [Called(p, "get_balance") EXCEPT
                          !.unlockedBalance = unlockedBalance,
                          !.rpcError =
                              "Insufficient unlocked balance in Monero wallet"]]
                  /\ Goto(p, "w_catch")
             ELSE /\ local' = [local EXCEPT ![p] =
                      [Called(p, "get_balance") EXCEPT
                          !.unlockedBalance = unlockedBalance]]
                  /\ Goto(p, "w_transfer")
    /\ UNCHANGED <<stores, response, started, initial_balance, succeeded>>

WTransfer(p) ==
    /\ pc[p] = "w_transfer"
    /\ \/ RpcFails(p, "transfer", "RPC error: transfer")
       \/ /\ local' = [local EXCEPT ![p] =
                          [Called(p, "transfer") EXCEPT !.txHash = "hex"]]
          /\ Goto(p, "w_completed")
    /\ UNCHANGED <<stores, response, started, initial_balance, succeeded>>

\* --- success path ---

MarkCompleted(row, txHash) ==
    [row EXCEPT !.status = "completed", !.tx_hash = txHash,
                !.notes = "Real Monero transaction", !.hash_origin = "daemon"]

WUpdateCompleted(p) ==
    /\ pc[p] = "w_completed"
    /\ withdrawal_requests' =
          [withdrawal_requests EXCEPT ![local[p].withdrawalId] =
              MarkCompleted(@, local[p].txHash)]
    /\ Goto(p, "w_debit")
    /\ UNCHANGED <<withdrawal_fees, wallet_balances, user_addresses, local,
                   response, started, initial_balance, succeeded>>

\* The amount taken off twice.
DebitTwice(balances, user, balance, cryptoAmount) ==
    IF balances[user] = NoRow THEN balances
    ELSE [balances EXCEPT ![user] = balance - cryptoAmount - cryptoAmount]

DebitNothing(balances, user, balance, cryptoAmount) == balances

\* wallet_balances.update({balance_xmr: balance.balance_xmr - cryptoAmount})
DebitFresh(balances, user, balance, cryptoAmount) ==
    IF balances[user] = NoRow THEN balances
    ELSE [balances EXCEPT ![user] = @ - cryptoAmount]

Debit(balances, user, balance, cryptoAmount) ==
    IF balances[user] = NoRow THEN balances
    ELSE [balances EXCEPT ![user] = balance - cryptoAmount]

\* history: one more success response for the user of p
SuccessCounted(p) ==
    [succeeded EXCEPT ![local[p].user] =
        [n |-> @.n + 1, amount_crypto |-> @.amount_crypto + local[p].cryptoAmount]]

SuccessResponse(p, status, warning) ==
    [NoResponse EXCEPT !.code = 200, !.success = TRUE, !.status = status,
                       !.warning = warning, !.fee_eur = local[p].totalFeeEur,
                       !.net_amount_eur = local[p].netAmountEur,
                       !.tx_hash = local[p].txHash]

WUpdateBalance(p) ==
    /\ pc[p] = "w_debit"
    /\ wallet_balances' = Debit(wallet_balances, local[p].user, local[p].balance,
                                local[p].cryptoAmount)
    /\ local' = [local EXCEPT ![p].writes = @ \cup {"wallet_balances"}]
    /\ succeeded' = SuccessCounted(p)
    /\ Respond(p, SuccessResponse(p, "completed", FALSE))
    /\ UNCHANGED <<withdrawal_fees, user_addresses, withdrawal_requests,
                   started, initial_balance>>

\* --- inner catch: the fallback ---

MarkFailed(row) == [row EXCEPT !.status = "failed", !.notes = "RPC Error"]

WCatchFailed(p) ==
    /\ pc[p] = "w_catch"
    /\ withdrawal_requests' =
          [withdrawal_requests EXCEPT ![local[p].withdrawalId] = MarkFailed(@)]
    /\ local' = [local EXCEPT ![p].txHash = "xmr_demo_"]
    /\ Goto(p, "w_simulate")
    /\ UNCHANGED <<withdrawal_fees, wallet_balances, user_addresses,
                   response, started, initial_balance, succeeded>>

MarkProcessingUnflagged(row, simulatedTxHash) ==
    [row EXCEPT !.status = "completed", !.tx_hash = "hex",
                !.hash_origin = "fabricated"]

MarkProcessing(row, simulatedTxHash) ==
    [row EXCEPT !.status = "processing", !.tx_hash = simulatedTxHash,
                !.notes = "Simulated transaction - RPC not available",
                !.hash_origin = "fabricated"]

WCatchProcessing(p) ==
    /\ pc[p] = "w_simulate"
    /\ withdrawal_requests' =
          [withdrawal_requests EXCEPT ![local[p].withdrawalId] =
              MarkProcessing(@, local[p].txHash)]
    /\ Goto(p, "w_catch_debit")
    /\ UNCHANGED <<withdrawal_fees, wallet_balances, user_addresses, local,
                   response, started, initial_balance, succeeded>>

WCatchBalance(p) ==
    /\ pc[p] = "w_catch_debit"
    /\ wallet_balances' = Debit(wallet_balances, local[p].user, local[p].balance,
                                local[p].cryptoAmount)
    /\ local' = [local EXCEPT ![p].writes = @ \cup {"wallet_balances"}]
    /\ succeeded' = SuccessCounted(p)
    /\ Respond(p, SuccessResponse(p, "processing", TRUE))
    /\ UNCHANGED <<withdrawal_fees, user_addresses, withdrawal_requests,
                   started, initial_balance>>

Withdrawal(p) ==
    \/ WRequest(p) \/ WFees(p) \/ WPrice(p) \/ WBalance(p) \/ WAddress(p)
    \/ WInsert(p) \/ WOpenWallet(p) \/ WValidateAddress(p) \/ WGetBalance(p)
    \/ WTransfer(p) \/ WUpdateCompleted(p) \/ WUpdateBalance(p)
    \/ WCatchFailed(p) \/ WCatchProcessing(p) \/ WCatchBalance(p)

----------------------------------------------------------------------------
\* generate-monero-address, wallet-daemon variant (part_000)

AddressResponse(address, warning) ==
    [NoResponse EXCEPT !.code = 200, !.success = TRUE, !.address = address,
                       !.warning = warning]

\* if (existingXMR && existingXMR.address !== 'pending')
HasAddressWrongTest(existingXMR) ==
    ~IsNull(existingXMR) /\ existingXMR.address = PendingAddress

HasAddress(existingXMR) ==
    ~IsNull(existingXMR) /\ existingXMR.address # PendingAddress

\* Request received, bearer token resolved.
GenRequest(p, handler, first) ==
    /\ pc[p] = "idle"
    /\ started < MaxRequests
    /\ started' = started + 1
    /\ \E user \in Users \cup {NoUser} :
          /\ local' = [local EXCEPT ![p] =
                          [BlankLocal EXCEPT !.handler = handler, !.user = user]]
          /\ IF user = NoUser THEN Throw(p, "Unauthorized")
             ELSE Goto(p, first) /\ UNCHANGED response
    /\ UNCHANGED <<stores, initial_balance, succeeded>>

\* The lookup of the user's XMR row, and the early return when one is on file.
GenLookup(p, at, next) ==
    /\ pc[p] = at
    /\ LET existingXMR == Single(AddressRows(local[p].user))
       IN IF HasAddress(existingXMR)
          THEN Respond(p, AddressResponse(existingXMR.address, FALSE))
          ELSE Goto(p, next) /\ UNCHANGED response
    /\ UNCHANGED <<stores, local, started, initial_balance, succeeded>>

ARequest(p) == GenRequest(p, "generate_rpc", "a_lookup")

ALookup(p) == GenLookup(p, "a_lookup", "a_open")

\* A daemon call that throws lands in the inner catch: the fallback.
ARpcFails(p, method) ==
    /\ local' = [local EXCEPT ![p] =
                     [Called(p, method) EXCEPT !.rpcError = "RPC error"]]
    /\ Goto(p, "a_fallback")

AOpenWallet(p) ==
    /\ pc[p] = "a_open"
    /\ local' = [local EXCEPT ![p] = Called(p, "open_wallet")]
    /\ \/ Goto(p, "a_createAddress")
       \/ Goto(p, "a_createWallet")
    /\ UNCHANGED <<stores, response, started, initial_balance, succeeded>>

ACreateWallet(p) ==
    /\ pc[p] = "a_createWallet"
    /\ \/ ARpcFails(p, "create_wallet")
       \/ /\ local' = [local EXCEPT ![p] = Called(p, "create_wallet")]
          /\ Goto(p, "a_createAddress")
    /\ UNCHANGED <<stores, response, started, initial_balance, succeeded>>

ACreateAddress(p) ==
    /\ pc[p] = "a_createAddress"
    /\ \/ ARpcFails(p, "create_address")
       \/ \E n \in Nonces :
             /\ local' = [local EXCEPT ![p] =
                             [Called(p, "create_address") EXCEPT
                                 !.address = <<"daemon", n>>]]
             /\ Goto(p, "a_queryKey")
    /\ UNCHANGED <<stores, response, started, initial_balance, succeeded>>

AGetPrivateKeys(p) ==
    /\ pc[p] = "a_queryKey"
    /\ \/ ARpcFails(p, "query_key")
       \/ /\ local' = [local EXCEPT ![p] = Called(p, "query_key")]
          /\ Goto(p, "a_upsert")
    /\ UNCHANGED <<stores, response, started, initial_balance, succeeded>>

\* The daemon-issued address is stored; a store error lands in the fallback.
AUpsert(p) ==
    /\ pc[p] = "a_upsert"
    /\ \/ /\ Goto(p, "a_fallback")
          /\ local' = [local EXCEPT ![p].rpcError = "xmrError"]
          /\ UNCHANGED <<user_addresses, response>>
       \/ /\ user_addresses' =
                StoreAddress(user_addresses,
                             AddressRow(local[p].user, local[p].address,
                                        RpcWalletJson))
          /\ local' = [local EXCEPT ![p].writes = @ \cup {"user_addresses"}]
          /\ Respond(p, AddressResponse(local[p].address, FALSE))
    /\ UNCHANGED <<withdrawal_fees, wallet_balances, withdrawal_requests,
                   started, initial_balance, succeeded>>

FallbackErrorSwallowed(p, simulatedAddress) ==
    Respond(p, AddressResponse(simulatedAddress, TRUE))

\* if (fallbackError) throw fallbackError
FallbackError(p, simulatedAddress) == Throw(p, "upsert failed")

\* The fallback: a fabricated address stored with the simulated flag.
AFallback(p) ==
    /\ pc[p] = "a_fallback"
    /\ \E n \in Nonces :
          LET simulatedAddress == <<"simulated48", n>>
          IN \/ /\ FallbackError(p, simulatedAddress)
                /\ local' = [local EXCEPT ![p].address = simulatedAddress]
                /\ UNCHANGED user_addresses
             \/ /\ user_addresses' =
                      StoreAddress(user_addresses,
                                   AddressRow(local[p].user, simulatedAddress,
                                              SimulatedJson))
                /\ local' = [local EXCEPT ![p].address = simulatedAddress,
                                          ![p].writes = @ \cup {"user_addresses"}]
                /\ Respond(p, AddressResponse(simulatedAddress, TRUE))
    /\ UNCHANGED <<withdrawal_fees, wallet_balances, withdrawal_requests,
                   started, initial_balance, succeeded>>

GenerateRpc(p) ==
    \/ ARequest(p) \/ ALookup(p) \/ AOpenWallet(p) \/ ACreateWallet(p)
    \/ ACreateAddress(p) \/ AGetPrivateKeys(p) \/ AUpsert(p) \/ AFallback(p)

----------------------------------------------------------------------------
\* generate-monero-address, local variant (part_001)

GRequest(p) == GenRequest(p, "generate_local", "g_lookup")

GLookup(p) == GenLookup(p, "g_lookup", "g_upsert")

\* generateMoneroAddress(): '4' followed by 94 random hex digits.
GenerateMoneroAddress(n) == <<"generated4", n>>

\* generateMoneroAddress() and the upsert of its result.
GUpsert(p) ==
    /\ pc[p] = "g_upsert"
    /\ \E n \in Nonces :
          LET moneroWallet == GenerateMoneroAddress(n)
          IN \/ /\ Throw(p, "upsert failed")
                /\ local' = [local EXCEPT ![p].address = moneroWallet]
                /\ UNCHANGED user_addresses
             \/ /\ user_addresses' =
                      StoreAddress(user_addresses,
                                   AddressRow(local[p].user, moneroWallet,
                                              GeneratedJson))
                /\ local' = [local EXCEPT ![p].address = moneroWallet,
                                          ![p].writes = @ \cup {"user_addresses"}]
                /\ Respond(p, AddressResponse(moneroWallet, FALSE))
    /\ UNCHANGED <<withdrawal_fees, wallet_balances, withdrawal_requests,
                   started, initial_balance, succeeded>>

GenerateLocal(p) == GRequest(p) \/ GLookup(p) \/ GUpsert(p)

----------------------------------------------------------------------------

Next == \E p \in Procs :
            Withdrawal(p) \/ GenerateRpc(p) \/ GenerateLocal(p) \/ Return(p)

Spec == Init /\ [][Next]_vars

----------------------------------------------------------------------------
\* Store faults: an update whose request fails. The client resolves with
\* an error object that the handler does not look at, so the handler goes
\* on with nothing written.

\* A rejected update would land in the inner catch.
WUpdateCompletedThrows(p) ==
    /\ pc[p] = "w_completed"
    /\ local' = [local EXCEPT ![p].rpcError = "update failed"]
    /\ Goto(p, "w_catch")
    /\ UNCHANGED <<stores, response, started, initial_balance, succeeded>>

WUpdateCompletedFails(p) ==
    /\ pc[p] = "w_completed"
    /\ Goto(p, "w_debit")
    /\ UNCHANGED <<stores, local, response, started, initial_balance, succeeded>>

WUpdateBalanceFails(p) ==
    /\ pc[p] = "w_debit"
    /\ succeeded' = SuccessCounted(p)
    /\ Respond(p, SuccessResponse(p, "completed", FALSE))
    /\ UNCHANGED <<stores, local, started, initial_balance>>

WCatchFailedFails(p) ==
    /\ pc[p] = "w_catch"
    /\ local' = [local EXCEPT ![p].txHash = "xmr_demo_"]
    /\ Goto(p, "w_simulate")
    /\ UNCHANGED <<stores, response, started, initial_balance, succeeded>>

WCatchProcessingFails(p) ==
    /\ pc[p] = "w_simulate"
    /\ Goto(p, "w_catch_debit")
    /\ UNCHANGED <<stores, local, response, started, initial_balance, succeeded>>

WCatchBalanceFails(p) ==
    /\ pc[p] = "w_catch_debit"
    /\ succeeded' = SuccessCounted(p)
    /\ Respond(p, SuccessResponse(p, "processing", TRUE))
    /\ UNCHANGED <<stores, local, started, initial_balance>>

StoreFault(p) ==
    \/ WUpdateCompletedFails(p) \/ WUpdateBalanceFails(p)
    \/ WCatchFailedFails(p) \/ WCatchProcessingFails(p) \/ WCatchBalanceFails(p)

NextStoreFaults == \E p \in Procs : Withdrawal(p) \/ StoreFault(p) \/ Return(p)

SpecStoreFaults == Init /\ [][NextStoreFaults]_vars

----------------------------------------------------------------------------
\* Requests served one after another: an invocation takes a step only
\* while no other invocation is in progress.

NextSequential ==
    \E p \in Procs :
        /\ \A q \in Procs \ {p} : pc[q] = "idle"
        /\ Withdrawal(p) \/ GenerateRpc(p) \/ GenerateLocal(p) \/ Return(p)

SpecSequential == Init /\ [][NextSequential]_vars

----------------------------------------------------------------------------
\* Helpers of the properties

IsWithdrawal(p) == local[p].handler = "withdrawal"

IsGenerate(p) == local[p].handler \in {"generate_rpc", "generate_local"}

Finished(p) == pc[p] = "done"

Rows == {withdrawal_requests[i] : i \in DOMAIN withdrawal_requests}

\* The request of p got past authentication, the currency check and the
\* fee lookup, so that its fee and net amount are defined.
FeesApply(p) ==
    /\ IsWithdrawal(p) /\ pc[p] # "w_fees"
    /\ local[p].user # NoUser /\ local[p].currency = "XMR"
    /\ withdrawal_fees # NoFees

\* amount_eur - (base_fee_eur + amount_eur * percentage_fee), times pct_den
NetTimesDen(amount_eur) ==
    amount_eur * withdrawal_fees.pct_den
        - (withdrawal_fees.base_fee_eur * withdrawal_fees.pct_den
             + amount_eur * withdrawal_fees.pct_num)

----------------------------------------------------------------------------
\* C1: the fee of every withdrawal is base_fee_eur + amount_eur *
\* percentage_fee and the net amount is amount_eur - fee; exactly that fee
\* is stored in the inserted row and reported; with base fee 2 EUR, 1 % and
\* 100 EUR the fee is 3 EUR and the net amount 97 EUR.
C1_FeeComputedAndStored ==
    /\ \A r \in Rows :
          /\ r.fee_eur * withdrawal_fees.pct_den =
                withdrawal_fees.base_fee_eur * withdrawal_fees.pct_den
                    + r.amount_eur * withdrawal_fees.pct_num
          /\ (withdrawal_fees = [base_fee_eur |-> 200, pct_num |-> 1, pct_den |-> 100]
                /\ r.amount_eur = 10000) => r.fee_eur = 300
    /\ \A p \in Procs : FeesApply(p) =>
          /\ local[p].netAmountEur * withdrawal_fees.pct_den
                = NetTimesDen(local[p].amount_eur)
          /\ local[p].netAmountEur = local[p].amount_eur - local[p].totalFeeEur
          /\ local[p].withdrawalId # 0 =>
                /\ withdrawal_requests[local[p].withdrawalId].fee_eur
                      = local[p].totalFeeEur
                /\ withdrawal_requests[local[p].withdrawalId].amount_eur
                      = local[p].amount_eur
          /\ (Finished(p) /\ response[p].success) =>
                /\ response[p].fee_eur
                      = withdrawal_requests[local[p].withdrawalId].fee_eur
                /\ response[p].net_amount_eur
                      = local[p].amount_eur - response[p].fee_eur
                /\ (withdrawal_fees.base_fee_eur = 200 /\ withdrawal_fees.pct_num = 1
                      /\ local[p].amount_eur = 10000) =>
                        (response[p].fee_eur = 300 /\ response[p].net_amount_eur = 9700)

C1_Witness ==
    \E p \in Procs :
        /\ IsWithdrawal(p) /\ Finished(p) /\ response[p].success
        /\ withdrawal_fees = [base_fee_eur |-> 200, pct_num |-> 1, pct_den |-> 100]
        /\ local[p].amount_eur = 10000
        /\ withdrawal_requests[local[p].withdrawalId].fee_eur = 300
        /\ response[p].net_amount_eur = 9700

----------------------------------------------------------------------------
\* C2: a withdrawal whose net amount is <= 0 is rejected with an error
\* response, having inserted no row, written no balance and called neither
\* the price source nor the wallet daemon.
C2_NetAmountRejected ==
    /\ \A p \in Procs :
          (FeesApply(p) /\ NetTimesDen(local[p].amount_eur) <= 0) =>
              /\ Finished(p)
              /\ response[p].code = 500 /\ ~response[p].success
              /\ response[p].error = "Amount too small after fees"
              /\ local[p].calls = <<>>
              /\ local[p].writes = {}
              /\ local[p].withdrawalId = 0
    /\ \A r \in Rows : NetTimesDen(r.amount_eur) > 0

C2_Witness ==
    \E p \in Procs :
        /\ FeesApply(p) /\ Finished(p)
        /\ NetTimesDen(local[p].amount_eur) = 0
        /\ response[p].error = "Amount too small after fees"
        /\ \E q \in Procs :
              /\ FeesApply(q) /\ Finished(q)
              /\ NetTimesDen(local[q].amount_eur) > 0
              /\ response[q].success

----------------------------------------------------------------------------
\* C3: a withdrawal whose crypto amount (net / price) exceeds the recorded
\* balance, or whose user has no balance row, is rejected with an error, no
\* row inserted, no balance written, no daemon call made; one whose crypto
\* amount equals the balance passes the check.

\* The balance check of p has been made.
BalanceChecked(p) ==
    /\ FeesApply(p) /\ local[p].xmrPrice # NoPrice /\ pc[p] # "w_balance"

\* balance < net / price, cross-multiplied (balance counts 1/PriceUnit coin)
Exceeds(p) ==
    local[p].balance * local[p].xmrPrice
        * withdrawal_fees.pct_den
            < NetTimesDen(local[p].amount_eur) * PriceUnit

\* C3: once the balance check is made, the request is rejected exactly when
\* the user has no balance row or the crypto amount exceeds the balance.
C3_BalanceChecked ==
    \A p \in Procs : BalanceChecked(p) =>
        IF local[p].balance = NoRow \/ Exceeds(p)
        THEN /\ Finished(p)
             /\ response[p].code = 500 /\ ~response[p].success
             /\ response[p].error = "Insufficient Monero balance"
             /\ local[p].writes = {}
             /\ local[p].withdrawalId = 0
             /\ local[p].calls = <<"price">>
        ELSE response[p].error # "Insufficient Monero balance"

C3_Witness ==
    \E p, q \in Procs :
        /\ BalanceChecked(p) /\ Finished(p) /\ response[p].success
        /\ local[p].balance * local[p].xmrPrice * withdrawal_fees.pct_den
              = NetTimesDen(local[p].amount_eur) * PriceUnit
        /\ BalanceChecked(q) /\ Finished(q)
        /\ local[q].balance # NoRow /\ Exceeds(q)
        /\ response[q].error = "Insufficient Monero balance"

C3_WitnessNoRow ==
    \E p \in Procs :
        /\ BalanceChecked(p) /\ Finished(p) /\ local[p].balance = NoRow
        /\ response[p].error = "Insufficient Monero balance"

----------------------------------------------------------------------------
\* C4: in both address-generation handlers, a call for a user who has an
\* XMR row whose address is not "pending" returns that stored address with
\* success, upserts nothing, calls no daemon and leaves user_addresses
\* unchanged; so repeated calls return the same address.

AtLookup(p) == pc[p] \in {"a_lookup", "g_lookup"}

\* The user of p has an XMR row on file whose address is not "pending".
OnFile(p, r) ==
    /\ r \in user_addresses
    /\ r.user_id = local[p].user /\ r.currency = "XMR"
    /\ r.address # PendingAddress
    /\ \A o \in user_addresses :
          (o.user_id = r.user_id /\ o.currency = r.currency) => o = r

C4_LookupStep(p) ==
    \A r \in user_addresses :
        (AtLookup(p) /\ pc'[p] # pc[p] /\ OnFile(p, r)) =>
            /\ pc'[p] = "done"
            /\ response'[p].code = 200 /\ response'[p].success
            /\ response'[p].address = r.address
            /\ user_addresses' = user_addresses
            /\ local'[p].calls = <<>> /\ local'[p].writes = {}

\* C4: every lookup step that finds a non-pending row returns its address
\* and changes nothing.
C4_LookupIdempotent == [][\A p \in Procs : C4_LookupStep(p)]_vars

\* Both implementations answered for the same user from the same row.
C4_Witness ==
    \E p, q \in Procs :
        /\ local[p].handler = "generate_rpc" /\ local[q].handler = "generate_local"
        /\ Finished(p) /\ Finished(q)
        /\ local[p].user = local[q].user
        /\ local[p].writes = {} /\ local[q].writes = {}
        /\ local[p].calls = <<>> /\ local[q].calls = <<>>
        /\ response[p].success /\ response[q].success
        /\ response[p].address = response[q].address
        /\ \E r \in user_addresses : OnFile(p, r) /\ r.address = response[p].address

----------------------------------------------------------------------------
\* C5: every user_addresses row whose address the handler fabricated
\* carries the simulated flag in private_key_encrypted, in both
\* implementations, and no row with a daemon-issued address carries it.
Fabricated(address) == address[1] \in {"simulated48", "generated4"}

\* C5: fabricated addresses are flagged simulated, daemon-issued ones not.
C5_FabricatedFlagged ==
    \A r \in user_addresses :
        /\ Fabricated(r.address) => "simulated" \in r.private_key_encrypted
        /\ r.address[1] = "daemon" => "simulated" \notin r.private_key_encrypted

\* What does hold: the fallback of the daemon-backed handler sets the flag.
C5_FallbackFlagged ==
    \A r \in user_addresses :
        /\ r.address[1] = "simulated48" => "simulated" \in r.private_key_encrypted
        /\ r.address[1] = "daemon" => "simulated" \notin r.private_key_encrypted

----------------------------------------------------------------------------
\* C6: a withdrawal row that holds a fabricated tx_hash is marked as
\* simulated in its stored notes and tx_hash, so that it differs from every
\* row with a daemon-returned hash, and never has status "completed"; after
\* a daemon failure the finished request's row is such a row.
C6_FabricatedHashMarked ==
    /\ \A r \in Rows :
          /\ r.hash_origin = "fabricated" =>
                /\ r.notes = "Simulated transaction - RPC not available"
                /\ r.tx_hash = "xmr_demo_"
                /\ r.status # "completed"
          /\ r.hash_origin = "daemon" =>
                /\ r.tx_hash = "hex"
                /\ r.notes = "Real Monero transaction"
          /\ r.hash_origin = "none" => r.tx_hash = "null"
    /\ \A p \in Procs :
          (IsWithdrawal(p) /\ Finished(p) /\ local[p].rpcError # "") =>
              /\ withdrawal_requests[local[p].withdrawalId].hash_origin = "fabricated"
              /\ response[p].tx_hash = "xmr_demo_"

C6_Witness ==
    \E p, q \in Procs :
        /\ IsWithdrawal(p) /\ Finished(p) /\ local[p].rpcError # ""
        /\ withdrawal_requests[local[p].withdrawalId].hash_origin = "fabricated"
        /\ IsWithdrawal(q) /\ Finished(q) /\ response[q].success
        /\ withdrawal_requests[local[q].withdrawalId].hash_origin = "daemon"

----------------------------------------------------------------------------
\* C7: when a daemon step of an accepted withdrawal fails (simulated
\* wallet, open_wallet, invalid destination, insufficient unlocked balance,
\* transfer), the handler ends with the row in status "processing" with a
\* fabricated tx_hash, writes balance_xmr = the balance it read minus the
\* crypto amount, and answers success with status "processing" and a warning.
DaemonFailures ==
    {"Cannot process real withdrawal with simulated wallet",
     "RPC error: open_wallet", "Invalid Monero destination address",
     "RPC error: get_balance", "Insufficient unlocked balance in Monero wallet",
     "RPC error: transfer"}

C7_Ended(p) ==
    (IsWithdrawal(p) /\ local[p].rpcError # "") =>
        /\ local[p].rpcError \in DaemonFailures
        /\ local[p].withdrawalId # 0
        /\ pc[p] \in {"w_catch", "w_simulate", "w_catch_debit", "done"}
        /\ Finished(p) =>
              /\ withdrawal_requests[local[p].withdrawalId].status = "processing"
              /\ withdrawal_requests[local[p].withdrawalId].tx_hash = "xmr_demo_"
              /\ response[p].code = 200 /\ response[p].success
              /\ response[p].status = "processing" /\ response[p].warning
              /\ "wallet_balances" \in local[p].writes

C7_Step(p) ==
    (IsWithdrawal(p) /\ local[p].rpcError # "" /\ pc'[p] = "done" /\ pc[p] # "done") =>
        /\ wallet_balances'[local[p].user] = local[p].balance - local[p].cryptoAmount
        /\ withdrawal_requests' = withdrawal_requests

\* C7: every step keeps a failed daemon path on the fallback, and the step
\* that ends it writes the balance read minus the crypto amount.
C7_DaemonFailureFallback ==
    [][\A p \in Procs : C7_Step(p) /\ C7_Ended(p)']_vars

C7_Witness ==
    \E p, q \in Procs :
        /\ IsWithdrawal(p) /\ Finished(p)
        /\ local[p].rpcError = "Insufficient unlocked balance in Monero wallet"
        /\ IsWithdrawal(q) /\ Finished(q)
        /\ local[q].rpcError = "RPC error: transfer"
        /\ response[p].status = "processing" /\ response[q].status = "processing"
        /\ withdrawal_requests[local[p].withdrawalId].status = "processing"
        /\ withdrawal_requests[local[q].withdrawalId].status = "processing"

C7_WitnessSimulatedWallet ==
    \E p \in Procs :
        /\ IsWithdrawal(p) /\ Finished(p)
        /\ local[p].rpcError = "Cannot process real withdrawal with simulated wallet"
        /\ withdrawal_requests[local[p].withdrawalId].status = "processing"

----------------------------------------------------------------------------
\* C8: the status of a withdrawal row moves only along
\* pending -> processing -> completed | failed: a row is created "pending",
\* becomes "completed" or "failed" only from "processing", and never leaves
\* "completed" or "failed".
Lifecycle == {<<"pending", "processing">>, <<"processing", "completed">>,
              <<"processing", "failed">>}

\* C8: every status change of a withdrawal row is a step of the lifecycle
\* pending -> processing -> completed | failed.
C8_StatusLifecycle ==
    [][\A i \in DOMAIN withdrawal_requests' :
          IF i \in DOMAIN withdrawal_requests
          THEN \/ withdrawal_requests'[i].status = withdrawal_requests[i].status
               \/ <<withdrawal_requests[i].status, withdrawal_requests'[i].status>>
                     \in Lifecycle
          ELSE withdrawal_requests'[i].status = "pending"]_vars

\* The transitions the handler does make.
CodeLifecycle == {<<"pending", "completed">>, <<"pending", "failed">>,
                  <<"failed", "processing">>}

C8_CodeTransitions ==
    [][\A i \in DOMAIN withdrawal_requests' :
          IF i \in DOMAIN withdrawal_requests
          THEN \/ withdrawal_requests'[i].status = withdrawal_requests[i].status
               \/ <<withdrawal_requests[i].status, withdrawal_requests'[i].status>>
                     \in CodeLifecycle
          ELSE withdrawal_requests'[i].status = "pending"]_vars

----------------------------------------------------------------------------
\* C9: two concurrent withdrawals of one user that both read the same
\* recorded balance are both accepted, also when their crypto amounts add
\* up to more than that balance; the later balance write overwrites the
\* earlier one, so the stored balance_xmr is the balance read minus one of
\* the two amounts and differs from the initial balance minus the sum of
\* all accepted amounts.
RECURSIVE SumCrypto(_, _)
SumCrypto(rows, u) ==
    IF rows = <<>> THEN 0
    ELSE (IF Head(rows).user_id = u THEN Head(rows).amount_crypto ELSE 0)
            + SumCrypto(Tail(rows), u)

BothAccepted(p, q) ==
    /\ p # q
    /\ IsWithdrawal(p) /\ IsWithdrawal(q)
    /\ Finished(p) /\ Finished(q)
    /\ response[p].success /\ response[q].success
    /\ local[p].user = local[q].user
    /\ local[p].balance = local[q].balance

\* C9: two accepted withdrawals that read the same balance leave a stored
\* balance that misses one of the two debits.
C9_LostUpdate ==
    \A p, q \in Procs : BothAccepted(p, q) =>
        LET u == local[p].user
            b == local[p].balance
        IN /\ wallet_balances[u] \in {b - local[p].cryptoAmount,
                                      b - local[q].cryptoAmount}
           /\ wallet_balances[u]
                 # initial_balance[u] - SumCrypto(withdrawal_requests, u)
           /\ wallet_balances[u] # b - local[p].cryptoAmount - local[q].cryptoAmount

\* The double spend: both accepted, together for more than the balance.
C9_Witness ==
    \E p, q \in Procs :
        /\ BothAccepted(p, q)
        /\ local[p].cryptoAmount + local[q].cryptoAmount > local[p].balance
        /\ local[p].balance = initial_balance[local[p].user]
        /\ wallet_balances[local[p].user]
              # initial_balance[local[p].user]
                    - SumCrypto(withdrawal_requests, local[p].user)
        /\ initial_balance[local[p].user]
              - SumCrypto(withdrawal_requests, local[p].user) < 0

----------------------------------------------------------------------------
----------------------------------------------------------------------------
\* C11 as claimed: for an authenticated user every address-generation call
\* ends in a success response, and after a failure in a success response
\* carrying a fabricated address, never in an error response.
Authenticated(p) == local[p].user # NoUser

C11_AlwaysSuccess ==
    \A p \in Procs : (IsGenerate(p) /\ Finished(p) /\ Authenticated(p)) =>
        /\ response[p].success /\ response[p].code = 200
        /\ local[p].rpcError # "" => Fabricated(response[p].address)

\* C11 as amended: in the daemon-backed implementation a daemon error or a
\* failure storing the daemon-issued address ends in a success response with
\* a warning and a fabricated address that was stored; a failure storing a
\* fabricated address ends in an error response with status 500, in both
\* implementations, and is the only error an authenticated call can end in.
C11_FallbackUnlessStoreFails ==
    \A p \in Procs : (IsGenerate(p) /\ Finished(p) /\ Authenticated(p)) =>
        /\ \/ response[p].success /\ response[p].code = 200
           \/ /\ ~response[p].success /\ response[p].code = 500
              /\ response[p].error = "upsert failed"
              /\ Fabricated(local[p].address)
              /\ local[p].writes = {}
        /\ (response[p].success /\ local[p].address # NoAddress) =>
              /\ local[p].writes = {"user_addresses"}
              /\ response[p].address = local[p].address
        /\ (response[p].success /\ local[p].rpcError # "") =>
              /\ local[p].handler = "generate_rpc"
              /\ response[p].address[1] = "simulated48"
              /\ response[p].warning
        /\ (local[p].handler = "generate_local" /\ local[p].address # NoAddress) =>
              /\ Fabricated(local[p].address)
              /\ local[p].rpcError = ""

C11_Witness ==
    \E p, q \in Procs :
        /\ local[p].handler = "generate_rpc" /\ Finished(p) /\ Authenticated(p)
        /\ local[p].rpcError = "xmrError"
        /\ response[p].success /\ Fabricated(response[p].address)
        /\ IsGenerate(q) /\ Finished(q) /\ Authenticated(q)
        /\ response[q].code = 500 /\ response[q].error = "upsert failed"

C11_WitnessFallbackStoreFails ==
    \E p \in Procs :
        /\ local[p].handler = "generate_rpc" /\ Finished(p) /\ Authenticated(p)
        /\ local[p].rpcError = "RPC error"
        /\ response[p].code = 500 /\ response[p].error = "upsert failed"

----------------------------------------------------------------------------
\* C12: every error raised before the response is built (no valid bearer
\* token, non-XMR currency, missing fee configuration, net amount <= 0, price
\* unavailable, insufficient balance, missing wallet row, insert error) is
\* answered with the body {error} and status 500, never with success; every
\* success response carries status 200.

\* The error a finished withdrawal of p must have been answered with, ""
\* when none of the listed conditions holds.
ExpectedError(p) ==
    IF ~Authenticated(p) THEN "Unauthorized"
    ELSE IF local[p].currency # "XMR"
    THEN "This function only handles Monero withdrawals"
    ELSE IF withdrawal_fees = NoFees
    THEN "Withdrawal fees not configured for Monero"
    ELSE IF NetTimesDen(local[p].amount_eur) <= 0
    THEN "Amount too small after fees"
    ELSE IF local[p].xmrPrice = NoPrice THEN "Could not fetch Monero price"
    ELSE IF local[p].balance = NoRow \/ Exceeds(p)
    THEN "Insufficient Monero balance"
    ELSE IF local[p].walletInfo = NullJson
    THEN "Monero wallet not found for user"
    ELSE IF local[p].withdrawalId = 0 THEN "insert failed"
    ELSE ""

\* C12: a finished request is answered either with success and status 200 or
\* with {error} and status 500, and with the error of its failed check.
C12_ErrorsAnswered500 ==
    \A p \in Procs : Finished(p) =>
        /\ \/ /\ response[p].success /\ response[p].code = 200
              /\ response[p].error = ""
           \/ /\ response[p].error # ""
              /\ response[p] = [NoResponse EXCEPT !.code = 500,
                                                  !.error = response[p].error]
        /\ IsWithdrawal(p) => response[p].error = ExpectedError(p)
        /\ (IsGenerate(p) /\ ~Authenticated(p)) =>
              /\ response[p].error = "Unauthorized" /\ response[p].code = 500

C12_Witness ==
    \E p, q \in Procs :
        /\ IsWithdrawal(p) /\ Finished(p)
        /\ response[p].error = "insert failed" /\ response[p].code = 500
        /\ Finished(q) /\ response[q].success /\ response[q].code = 200

C12_WitnessEachError ==
    \E p, q \in Procs :
        /\ IsWithdrawal(p) /\ Finished(p) /\ IsWithdrawal(q) /\ Finished(q)
        /\ response[p].error = "Could not fetch Monero price"
        /\ response[q].error = "Monero wallet not found for user"
        /\ response[p].code = 500 /\ response[q].code = 500

----------------------------------------------------------------------------
\* C13: a withdrawal rejected before the record insert (unauthenticated,
\* currency not XMR, no fee configuration, net amount <= 0, no EUR price,
\* insufficient or missing balance, missing wallet metadata) leaves
\* withdrawal_requests, wallet_balances and user_addresses unchanged and
\* calls no wallet daemon; a failure of the price source is rejected and
\* never replaced by a fabricated transaction.
BeforeInsert == {"idle", "w_fees", "w_price", "w_balance", "w_address"}

PreInsertRejections ==
    {"Unauthorized", "This function only handles Monero withdrawals",
     "Withdrawal fees not configured for Monero", "Amount too small after fees",
     "Could not fetch Monero price", "Insufficient Monero balance",
     "Monero wallet not found for user"}

\* A step of the withdrawal of p taken before its insert.
C13_Step(p) ==
    (pc'[p] # pc[p] /\ pc[p] \in BeforeInsert /\ local'[p].handler = "withdrawal") =>
        /\ withdrawal_requests' = withdrawal_requests
        /\ wallet_balances' = wallet_balances
        /\ user_addresses' = user_addresses
        /\ local'[p].writes = {} /\ local'[p].withdrawalId = 0
        /\ local'[p].calls \in {<<>>, <<"price">>}
        /\ local'[p].txHash = "null"

C13_Rejected(p) ==
    /\ (IsWithdrawal(p) /\ Finished(p) /\ ~response[p].success
          /\ response[p].error # "insert failed") =>
          /\ response[p].error \in PreInsertRejections
          /\ local[p].writes = {} /\ local[p].withdrawalId = 0
          /\ local[p].calls \in {<<>>, <<"price">>}
          /\ response[p].tx_hash = "null" /\ response[p].status = ""
    /\ (IsWithdrawal(p) /\ local[p].calls # <<>> /\ local[p].xmrPrice = NoPrice) =>
          /\ Finished(p) /\ response[p].code = 500
          /\ response[p].error = "Could not fetch Monero price"
          /\ local[p].calls = <<"price">> /\ local[p].txHash = "null"

\* C13: no step before the insert writes a table or calls the daemon, and a
\* rejected request ends without a row, a write, a daemon call or a hash.
C13_RejectionWritesNothing ==
    [][\A p \in Procs : C13_Step(p) /\ C13_Rejected(p)']_vars

C13_Witness ==
    \E p, q \in Procs :
        /\ IsWithdrawal(p) /\ Finished(p) /\ IsWithdrawal(q) /\ Finished(q)
        /\ response[p].error = "Could not fetch Monero price"
        /\ local[p].calls = <<"price">>
        /\ response[q].error = "Monero wallet not found for user"
        /\ local[p].user = local[q].user
        /\ withdrawal_requests = <<>>
        /\ wallet_balances = initial_balance

----------------------------------------------------------------------------
\* C14: within one withdrawal the daemon transfer is issued at most once,
\* only after the row was inserted as "pending" and, in this order,
\* open_wallet succeeded, validate_address answered valid and the unlocked
\* balance of the daemon was at least the crypto amount; never for a wallet
\* whose stored metadata is flagged simulated, and never again after a
\* failure.
TransferCalls(p) ==
    {i \in DOMAIN local[p].calls : local[p].calls[i] = "transfer"}

DaemonPath == <<"price", "open_wallet", "validate_address", "get_balance", "transfer">>

C14_Issued(p) ==
    IsWithdrawal(p) =>
        /\ Cardinality(TransferCalls(p)) <= 1
        /\ TransferCalls(p) # {} =>
              /\ local[p].calls = DaemonPath
              /\ local[p].withdrawalId # 0
              /\ "simulated" \notin local[p].walletInfo
              /\ local[p].unlockedBalance >= local[p].cryptoAmount
              /\ local[p].rpcError \in {"", "RPC error: transfer"}
        /\ "simulated" \in local[p].walletInfo => local[p].calls = <<"price">>

C14_Step(p) ==
    /\ (IsWithdrawal(p) /\ Len(local'[p].calls) > Len(local[p].calls)
          /\ local'[p].calls[Len(local'[p].calls)] = "transfer") =>
          /\ pc[p] = "w_transfer" /\ local[p].rpcError = ""
          /\ withdrawal_requests[local[p].withdrawalId].status = "pending"
          /\ withdrawal_requests[local[p].withdrawalId].user_id = local[p].user
    /\ (IsWithdrawal(p) /\ local[p].rpcError # "" /\ pc'[p] # "idle") =>
          local'[p].calls = local[p].calls

\* C14: the transfer is issued once at most, on the checked daemon path of
\* a pending row, and no daemon call follows a failure.
C14_TransferOnce ==
    [][\A p \in Procs : C14_Step(p) /\ C14_Issued(p)']_vars

C14_Witness ==
    \E p, q \in Procs :
        /\ IsWithdrawal(p) /\ Finished(p) /\ local[p].calls = DaemonPath
        /\ local[p].rpcError = "" /\ response[p].status = "completed"
        /\ IsWithdrawal(q) /\ Finished(q) /\ local[q].calls = DaemonPath
        /\ local[q].rpcError = "RPC error: transfer"
        /\ response[q].status = "processing"

C14_WitnessSimulatedWallet ==
    \E p \in Procs :
        /\ IsWithdrawal(p) /\ Finished(p) /\ response[p].success
        /\ "simulated" \in local[p].walletInfo
        /\ local[p].calls = <<"price">>

----------------------------------------------------------------------------
\* C15: a row is "completed" only if the daemon transfer of its request
\* returned successfully, and then carries the hash the daemon returned;
\* and once the transfer returned successfully the row does not end
\* "processing" or "failed" with a fabricated hash, also when a store update
\* of the success path fails.

\* The transfer of p was issued and did not fail.
TransferReturned(p) ==
    /\ IsWithdrawal(p) /\ TransferCalls(p) # {}
    /\ local[p].rpcError # "RPC error: transfer"

C15_Rows ==
    \A i \in DOMAIN withdrawal_requests :
        withdrawal_requests[i].status = "completed" =>
            /\ withdrawal_requests[i].tx_hash = "hex"
            /\ withdrawal_requests[i].hash_origin = "daemon"

C15_Returned(p) ==
    TransferReturned(p) =>
        /\ pc[p] \in {"w_completed", "w_debit", "done"}
        /\ local[p].txHash = "hex"
        /\ withdrawal_requests[local[p].withdrawalId].status \in {"pending", "completed"}
        /\ withdrawal_requests[local[p].withdrawalId].hash_origin # "fabricated"
        /\ withdrawal_requests[local[p].withdrawalId].tx_hash \in {"null", "hex"}
        /\ Finished(p) =>
              /\ response[p].success /\ response[p].status = "completed"
              /\ response[p].tx_hash = "hex" /\ ~response[p].warning

\* A row changes only in a step of the request that inserted it, becomes
\* "completed" only in the step after its transfer returned, and is left
\* alone once "completed".
C15_Step ==
    \A i \in DOMAIN withdrawal_requests :
        withdrawal_requests'[i] # withdrawal_requests[i] =>
            /\ withdrawal_requests[i].status # "completed"
            /\ \E p \in Procs :
                  /\ IsWithdrawal(p) /\ local[p].withdrawalId = i
                  /\ pc'[p] # pc[p]
                  /\ withdrawal_requests'[i].status = "completed" =>
                        /\ TransferReturned(p) /\ pc[p] = "w_completed"
                        /\ withdrawal_requests'[i].tx_hash = local[p].txHash

\* C15, with store updates that may fail.
C15_CompletedIffTransferred ==
    [][C15_Step /\ C15_Rows' /\ \A p \in Procs : C15_Returned(p)']_vars

\* The update to "completed" failed, the balance update went through.
C15_Witness ==
    \E p, q \in Procs :
        /\ TransferReturned(p) /\ Finished(p)
        /\ withdrawal_requests[local[p].withdrawalId].status = "pending"
        /\ "wallet_balances" \in local[p].writes
        /\ TransferReturned(q) /\ Finished(q)
        /\ withdrawal_requests[local[q].withdrawalId].status = "completed"
        /\ withdrawal_requests[local[q].withdrawalId].tx_hash = "hex"

----------------------------------------------------------------------------
\* C16: the stored balance_xmr of a user is never negative, whatever the
\* interleaving of withdrawals, when it starts non-negative: every write
\* stores a balance read earlier minus a crypto amount that was checked to
\* be at most that balance.
C16_NonNegative ==
    \A u \in Users : wallet_balances[u] = NoRow \/ wallet_balances[u] >= 0

C16_Write ==
    \A u \in Users :
        wallet_balances'[u] # wallet_balances[u] =>
            \E p \in Procs :
                /\ IsWithdrawal(p) /\ local[p].user = u
                /\ pc[p] \in {"w_debit", "w_catch_debit"} /\ pc'[p] = "done"
                /\ local[p].balance # NoRow
                /\ local[p].cryptoAmount <= local[p].balance
                /\ wallet_balances'[u] = local[p].balance - local[p].cryptoAmount

\* C16: every balance write stores a checked difference, so the stored
\* balance stays non-negative.
C16_BalanceNeverNegative == [][C16_Write /\ C16_NonNegative']_vars

\* Two overlapping withdrawals for more than the balance, the stored
\* balance ending at zero.
C16_Witness ==
    \E p, q \in Procs :
        /\ BothAccepted(p, q)
        /\ local[p].cryptoAmount + local[q].cryptoAmount > local[p].balance
        /\ local[p].cryptoAmount = local[p].balance
        /\ wallet_balances[local[p].user] = 0

----------------------------------------------------------------------------
\* C17: when the withdrawals of a user run one after another, the stored
\* balance_xmr is the initial balance minus the crypto amounts of the
\* requests answered with success, and the user has as many
\* withdrawal_requests rows as success responses: an accepted request
\* inserts one row and debits once, whether its daemon path succeeded or
\* failed.
Quiescent == \A p \in Procs : pc[p] \in {"idle", "done"}

UserRows(u) ==
    {i \in DOMAIN withdrawal_requests : withdrawal_requests[i].user_id = u}

C17_SequentialLedger ==
    /\ Quiescent =>
          \A u \in Users :
              /\ wallet_balances[u] # NoRow =>
                    wallet_balances[u]
                        = initial_balance[u] - succeeded[u].amount_crypto
              /\ Cardinality(UserRows(u)) = succeeded[u].n
              /\ SumCrypto(withdrawal_requests, u) = succeeded[u].amount_crypto
    /\ \A p \in Procs : (IsWithdrawal(p) /\ Finished(p)) =>
          IF response[p].success
          THEN /\ local[p].withdrawalId = Len(withdrawal_requests)
               /\ local[p].writes = {"withdrawal_requests", "wallet_balances"}
               /\ wallet_balances[local[p].user]
                     = local[p].balance - local[p].cryptoAmount
          ELSE local[p].withdrawalId = 0 /\ local[p].writes = {}

\* Two requests served in turn, one completed and one on the fallback.
C17_Witness ==
    /\ Quiescent
    /\ succeeded["u1"].n = 2
    /\ wallet_balances["u1"] = initial_balance["u1"] - succeeded["u1"].amount_crypto
    /\ \E i, j \in DOMAIN withdrawal_requests :
          /\ withdrawal_requests[i].status = "completed"
          /\ withdrawal_requests[j].status = "processing"

====
